---- MODULE Spec2Model ----
(***************************************************************************)
(* Triage & Recovery Hub: the claim-and-process pipeline                   *)
(* (tasks/triage.py), the triage classifier (services/llm.py,              *)
(* services/validation.py), the manual resolve endpoint (api/tickets.py)   *)
(* and the subscription multiplexer (api/websocket.py, app/pubsub.py).     *)
(*                                                                         *)
(* A nullable column or attribute is a set of at most one element:         *)
(* NULL is {} and a stored value v is {v}.                                 *)
(***************************************************************************)
EXTENDS Integers, Sequences, FiniteSets, TLC

\* ------------------------------------------------------------------ bounds
MaxTickets == 1
MaxTasks == 2
MaxOutages == 1
MaxConns == 2
MaxListeners == 2
MaxSubjects == 2
MaxEvents == 2
MaxRequests == 2
MaxReuse == 1

\* ------------------------------------------------- program constants
TaskRetries == 3
MinSentiment == 1
MaxSentiment == 10
MinDraftLen == 20
MaxDraftLen == 2000
FallbackSentiment == 5
FallbackDraftLen == 170
ErrorMessageMax == 500

NULL == {}
Some(v) == {v}

TicketIds == 1..MaxTickets
Tasks == 1..MaxTasks

TicketStatus == {"pending", "processing", "completed", "failed"}
TicketCategory == {"Billing", "Technical", "Feature Request"}
UrgencyLevel == {"High", "Medium", "Low"}
AIStatus == {"success", "fallback", "error"}

\* ------------------------------------------------ provider output (JSON)
\* A JSON field value is [str |-> s], [num |-> n] or absent.
Missing == [missing |-> TRUE]
JStr(s) == [str |-> s]
JNum(n) == [num |-> n]
IsStr(v) == DOMAIN v = {"str"}
IsNum(v) == DOMAIN v = {"num"}

JsonObject(c, s, u, d, a) ==
    [j |-> "object", category |-> c, sentiment_score |-> s, urgency |-> u,
     draft_response |-> d, ai_status |-> a]
\* draft_response strings are represented by their length.
JsonInvalid == [j |-> "invalid"]
JsonNull == [j |-> "null"]
JsonNumber(n) == [j |-> "number", n |-> n]
JsonList(n) == [j |-> "list", len |-> n]

CategoryInputs == {JStr("Billing"), JStr("Technical"), JStr("General"), Missing}
SentimentInputs == {JNum(0), JNum(1), JNum(10), JNum(12), JStr("angry"), Missing}
UrgencyInputs == {JStr("High"), JStr("Low"), JStr("Critical"), Missing}
DraftInputs == {JNum(19), JNum(20), JNum(2000), JNum(2001), Missing}
AiStatusInputs == {Missing, JStr("fallback"), JStr("bogus")}

JsonBodies ==
    {JsonInvalid, JsonNull, JsonNumber(0), JsonNumber(7), JsonList(0), JsonList(2)}
    \cup {JsonObject(c, s, u, d, a) : c \in CategoryInputs, s \in SentimentInputs,
              u \in UrgencyInputs, d \in DraftInputs,
              a \in AiStatusInputs}

\* The text is a prefix, a body and a suffix; "fence_json" and "fence" stand
\* for the markdown code-fence markers with and without the json tag.
Prefixes == {"", "fence_json", "fence", "Sure:"}
Suffixes == {"", "fence"}

ProviderRaise == [kind |-> "raise"]
ProviderText(p, b, s) == [kind |-> "text", prefix |-> p, body |-> b, suffix |-> s]
ProviderOutputs ==
    {ProviderRaise}
    \cup {ProviderText(p, b, s) : p \in Prefixes, b \in JsonBodies, s \in Suffixes}

\* ------------------------------------------------ services/validation.py
ParseError == [j |-> "error"]

\* json.loads on a text: succeeds only on a bare, well-formed JSON document.
json_loads(text) ==
    IF text.prefix = "" /\ text.suffix = "" /\ text.body # JsonInvalid
    THEN text.body ELSE ParseError

\* the markdown clean-up of safe_parse_json
StripFence(text) ==
    [text EXCEPT !.prefix = IF @ \in {"fence_json", "fence"} THEN "" ELSE @,
                 !.suffix = IF @ = "fence" THEN "" ELSE @]

safe_parse_json(text) ==
    IF json_loads(text) # ParseError THEN json_loads(text)
    ELSE json_loads(StripFence(text))

\* Python truthiness of a parsed JSON value ("if not response_json")
Truthy(v) ==
    CASE v.j = "error" -> FALSE
      [] v.j = "null" -> FALSE
      [] v.j = "number" -> v.n # 0
      [] v.j = "list" -> v.len # 0
      [] v.j = "object" ->
            \E f \in {"category", "sentiment_score", "urgency",
                      "draft_response", "ai_status"} : v[f] # Missing

\* the field constraints of AITriageResponse
SchemaValid(o) ==
    /\ IsStr(o.category) /\ o.category.str \in TicketCategory
    /\ IsNum(o.sentiment_score)
    /\ o.sentiment_score.num >= MinSentiment
    /\ o.sentiment_score.num <= MaxSentiment
    /\ IsStr(o.urgency) /\ o.urgency.str \in UrgencyLevel
    /\ IsNum(o.draft_response)
    /\ o.draft_response.num >= MinDraftLen
    /\ o.draft_response.num <= MaxDraftLen
    /\ (o.ai_status = Missing \/ (IsStr(o.ai_status) /\ o.ai_status.str \in AIStatus))

AITriageResponse(c, s, u, d, a) ==
    [category |-> c, sentiment_score |-> s, urgency |-> u,
     draft_response |-> d, ai_status |-> a]

None == [none |-> TRUE]
TypeErrorRaised == [raised |-> "TypeError"]

\* validate_ai_response: AITriageResponse(**response_data); a ValidationError
\* gives None, a non-mapping argument raises TypeError to the caller.
validate_ai_response(v) ==
    IF v.j # "object" THEN TypeErrorRaised
    ELSE IF SchemaValid(v)
    THEN AITriageResponse(v.category.str, v.sentiment_score.num, v.urgency.str,
                          v.draft_response.num,
                          IF v.ai_status = Missing THEN "success" ELSE v.ai_status.str)
    ELSE None

get_fallback_response ==
    AITriageResponse("Technical", FallbackSentiment, "Medium", FallbackDraftLen,
                     "success")

\* ------------------------------------------------------ services/llm.py
\* (mutant) a provider exception is not converted to the fallback result
triage_complaint_NoFallbackOnRaise(p) ==
    IF p.kind = "raise" THEN None
    ELSE IF ~Truthy(safe_parse_json(p)) THEN get_fallback_response
    ELSE IF validate_ai_response(safe_parse_json(p)) \in {TypeErrorRaised, None}
         THEN get_fallback_response
    ELSE validate_ai_response(safe_parse_json(p))

\* (mutant) the TypeError of validate_ai_response leaves triage_complaint
triage_complaint_Propagates(p) ==
    IF p.kind = "raise" THEN get_fallback_response
    ELSE IF ~Truthy(safe_parse_json(p)) THEN get_fallback_response
    ELSE IF validate_ai_response(safe_parse_json(p)) = None
         THEN get_fallback_response
    ELSE validate_ai_response(safe_parse_json(p))

triage_complaint(p) ==
    IF p.kind = "raise" THEN get_fallback_response
    ELSE IF ~Truthy(safe_parse_json(p)) THEN get_fallback_response
    ELSE IF validate_ai_response(safe_parse_json(p)) = TypeErrorRaised
         THEN get_fallback_response
    ELSE IF validate_ai_response(safe_parse_json(p)) = None
         THEN get_fallback_response
    ELSE validate_ai_response(safe_parse_json(p))

\* a result that satisfies every TriageResult field constraint
ResultValid(r) ==
    /\ r.category \in TicketCategory
    /\ r.sentiment_score \in MinSentiment..MaxSentiment
    /\ r.urgency \in UrgencyLevel
    /\ r.draft_response \in MinDraftLen..MaxDraftLen
    /\ r.ai_status \in AIStatus

\* --------------------------------------------------------------- state
VARIABLES
    tickets,      \* the tickets table: id -> row, or NoRow before creation
    tasks,        \* the task invocations of process_ticket_triage
    dbDown,       \* the store is unreachable: every store operation raises
    outages,      \* store outages so far
    published,    \* per ticket and status: UpdateEvents published on the channel
    claims,       \* per ticket: claim updates that affected a row
    triageCalls,  \* per ticket: calls of triage_complaint
    t_in,         \* provider behaviour given to a stand-alone classifier call
    t_out         \* its result

\* the real-time multiplexer (api/websocket.py) and the bridge (app/pubsub.py)
VARIABLES
    sock,                \* per connection: the transport as the peer left it
    conn,                \* per connection: where websocket_endpoint stands
    all_connections,     \* ConnectionManager.all_connections
    active_connections,  \* ConnectionManager.active_connections
    redis_task,          \* ConnectionManager.redis_task
    listeners,           \* the tasks running subscribe_ticket_updates_async
    outbox,              \* per connection: the frames sent to it, in order
    events,              \* messages published on the channel so far
    requests,            \* client frames handled so far
    dispatched,          \* per listener and message: the cloned subscribers
    attempts,            \* per listener, message, connection: a send's outcome
    received             \* per connection: the last frame its handler took,
                         \* with its number among the frames handled

wsVars == <<sock, conn, all_connections, active_connections, redis_task,
            listeners, outbox, events, requests, dispatched, attempts,
            received>>

vars == <<tickets, tasks, dbDown, outages, published, claims, triageCalls,
          t_in, t_out, wsVars>>

\* ------------------------------------------------------ models/ticket.py
\* The mapped columns of Ticket that the core reads or writes.
NoRow == [absent |-> TRUE]
NewTicket ==
    [status |-> "pending", category |-> NULL, sentiment_score |-> NULL,
     urgency |-> NULL, ai_draft_response |-> NULL,
     agent_edited_response |-> NULL, resolved_at |-> NULL, agent_id |-> NULL,
     error_message |-> NULL]

Terminal == {"completed", "failed"}

\* Session.flush: the UPDATE carries the attributes whose assigned value
\* differs from the value loaded into the ORM object.
Flush(row, loaded, assigned) ==
    [c \in DOMAIN row |->
        IF c \in DOMAIN assigned /\ assigned[c] # loaded[c]
        THEN assigned[c] ELSE row[c]]

\* ------------------------------------------------------- tasks/triage.py
IdleTask ==
    [pc |-> "idle", tid |-> 1, retries |-> 0, runs |-> 0, rowcount |-> NULL,
     orm |-> NoRow, ai |-> None, prov |-> None, exc |-> NULL]

\* str(e): exception texts are represented by their length
ErrTextLens == {900}
\* str(e)[:500]
Truncate(n) == IF n > ErrorMessageMax THEN ErrorMessageMax ELSE n

\* the provider behaviours the pipeline is run against
PipelineProviders ==
    {ProviderRaise,
     ProviderText("Sure:", JsonInvalid, ""),
     ProviderText("", JsonObject(JStr("Billing"), JNum(12), JStr("High"),
                                 JNum(60), Missing), ""),
     ProviderText("fence_json", JsonObject(JStr("Billing"), JNum(3), JStr("High"),
                                 JNum(60), Missing), "fence")}

\* (mutant) the message carries completed whatever the reloaded row holds
PublishedEvent_NotReloaded(t, row) ==
    [published EXCEPT ![t]["completed"] = @ + 1]

\* app/pubsub.py publish_ticket_update, when the broker accepts the message:
\* one more UpdateEvent for ticket t carrying the status of the reloaded row
PublishedEvent(t, row) ==
    [published EXCEPT ![t][row.status] = @ + 1]

\* the slot a new invocation takes: the first idle one
FreeSlots ==
    {k \in Tasks : /\ tasks[k].pc = "idle"
                   /\ \A j \in Tasks : j < k => tasks[j].pc # "idle"}

QueuedTask(t) ==
    [IdleTask EXCEPT !.pc = "queued", !.tid = t, !.retries = TaskRetries]

\* api/tickets.py create_ticket, lines 56-64: the insert with the default
\* status is committed, then process_ticket_triage(ticket.id) hands one unit
\* of work to the queue. brokerUp: the queue's storage takes the task; when
\* it raises instead, line 70 rolls back a transaction that is already
\* committed and the request ends with status 500.
CreateTicket(brokerUp) ==
    \E t \in TicketIds, k \in FreeSlots :
        /\ ~dbDown
        /\ tickets[t] = NoRow
        /\ \A u \in TicketIds : u < t => tickets[u] # NoRow
        /\ tickets' = [tickets EXCEPT ![t] = NewTicket]
        /\ tasks' = IF brokerUp THEN [tasks EXCEPT ![k] = QueuedTask(t)]
                                ELSE tasks
        /\ UNCHANGED <<dbDown, outages, published, claims, triageCalls,
                       t_in, t_out, wsVars>>

create_ticket == \E brokerUp \in BOOLEAN : CreateTicket(brokerUp)

\* process_ticket_triage(ticket_id) called again for an id (a duplicate task)
Enqueue ==
    \E t \in TicketIds, k \in FreeSlots :
        /\ \E j \in Tasks : tasks[j].pc # "idle"
        /\ tasks' = [tasks EXCEPT ![k] = QueuedTask(t)]
        /\ UNCHANGED <<tickets, dbDown, outages, published, claims,
                       triageCalls, t_in, t_out, wsVars>>

\* a store operation of task k raises
StoreRaises(k) ==
    /\ dbDown
    /\ tasks' = [tasks EXCEPT ![k].pc = "handler", ![k].exc = Some("SQLAlchemyError")]
    /\ UNCHANGED <<tickets, dbDown, outages, published, claims, triageCalls,
                   t_in, t_out, wsVars>>

\* (mutant) the claim's UPDATE without the status condition
ClaimMatches_AnyStatus(row) == row # NoRow

\* (mutant) the claim's UPDATE also matches failed tickets
ClaimMatches_Retryable(row) ==
    row # NoRow /\ row.status \in {"pending", "failed"}

\* the WHERE clause of the claim's conditional UPDATE
ClaimMatches(row) == row # NoRow /\ row.status = "pending"

\* (mutant) an update that affects no row is treated as a failure
OnZeroRows_Raises(started) ==
    [started EXCEPT !.pc = "handler", !.rowcount = Some(0),
                    !.exc = Some("ValueError")]

\* lines 56-61: the update affected no row: log a warning and return
OnZeroRows(started) == [started EXCEPT !.pc = "done", !.rowcount = Some(0)]

\* lines 35-66: the worker takes the task, loads the ticket and claims it
Claim(k) ==
    /\ tasks[k].pc = "queued"
    /\ LET t == tasks[k].tid
           started == [tasks[k] EXCEPT !.runs = @ + 1, !.rowcount = NULL,
                                       !.orm = NoRow, !.ai = None,
                                       !.exc = NULL]
       IN  \/ /\ dbDown
              /\ tasks' = [tasks EXCEPT ![k] =
                              [started EXCEPT !.pc = "handler",
                                              !.exc = Some("SQLAlchemyError")]]
              /\ UNCHANGED <<tickets, claims>>
           \/ /\ ~dbDown
              /\ tickets[t] = NoRow
              /\ tasks' = [tasks EXCEPT ![k] = [started EXCEPT !.pc = "done"]]
              /\ UNCHANGED <<tickets, claims>>
           \/ /\ ~dbDown
              /\ tickets[t] # NoRow
              /\ ~ClaimMatches(tickets[t])
              /\ tasks' = [tasks EXCEPT ![k] = OnZeroRows(started)]
              /\ UNCHANGED <<tickets, claims>>
           \/ /\ ~dbDown
              /\ ClaimMatches(tickets[t])
              /\ tickets' = [tickets EXCEPT ![t].status = "processing"]
              /\ claims' = [claims EXCEPT ![t] = @ + 1]
              /\ tasks' = [tasks EXCEPT ![k] =
                              [started EXCEPT !.pc = "refresh", !.rowcount = Some(1)]]
    /\ UNCHANGED <<dbDown, outages, published, triageCalls, t_in, t_out, wsVars>>

\* line 64: db.refresh(ticket)
Refresh(k) ==
    /\ tasks[k].pc = "refresh"
    /\ \/ StoreRaises(k)
       \/ /\ ~dbDown
          /\ tasks' = [tasks EXCEPT ![k].pc = "triage",
                                    ![k].orm = tickets[tasks[k].tid]]
          /\ UNCHANGED <<tickets, dbDown, outages, published, claims,
                         triageCalls, t_in, t_out, wsVars>>

\* a provider that never responds
ProviderHangs == [kind |-> "hang"]

\* lines 68-76: the classifier call. llm.py:51 calls
\* self.model.generate_content(prompt): the timeout argument of
\* triage_complaint is passed to nothing, so the call returns when the
\* provider responds and stays in progress when it never does.
Triage(k) ==
    /\ tasks[k].pc = "triage"
    /\ tasks[k].prov # ProviderHangs
    /\ \/ \E p \in PipelineProviders :
             tasks' = [tasks EXCEPT
                         ![k].pc = IF triage_complaint(p) = None
                                   THEN "handler" ELSE "commit",
                         ![k].exc = IF triage_complaint(p) = None
                                    THEN Some("ValueError") ELSE NULL,
                         ![k].prov = p,
                         ![k].ai = triage_complaint(p)]
       \/ tasks' = [tasks EXCEPT ![k].prov = ProviderHangs]
    /\ triageCalls' = [triageCalls EXCEPT ![tasks[k].tid] = @ + 1]
    /\ UNCHANGED <<tickets, dbDown, outages, published, claims, t_in, t_out, wsVars>>

\* lines 78-85: the attributes assigned from the TriageResult
SuccessAssignment(ai) ==
    [category |-> Some(ai.category),
     sentiment_score |-> Some(ai.sentiment_score),
     urgency |-> Some(ai.urgency),
     ai_draft_response |-> Some(ai.draft_response),
     status |-> "completed",
     error_message |-> NULL]

\* lines 78-87: merge the result and commit
Commit(k) ==
    /\ tasks[k].pc = "commit"
    /\ \/ StoreRaises(k)
       \/ /\ ~dbDown
          /\ tickets' = [tickets EXCEPT ![tasks[k].tid] =
                            Flush(@, tasks[k].orm, SuccessAssignment(tasks[k].ai))]
          /\ tasks' = [tasks EXCEPT ![k].pc = "publish"]
          /\ UNCHANGED <<dbDown, outages, published, claims, triageCalls,
                         t_in, t_out, wsVars>>

\* (mutant) the broker's exception leaves publish_ticket_update and reaches
\* the task's except block
OnPublishError_Propagates(task) ==
    [task EXCEPT !.pc = "handler", !.exc = Some("ConnectionError")]

\* app/pubsub.py lines 58-62: the broker's exception is caught and logged,
\* publish_ticket_update returns False and the task runs on to its end
OnPublishError(task) == [task EXCEPT !.pc = "done"]

\* lines 89-106: reload the expired attributes and publish the update
Publish(k) ==
    /\ tasks[k].pc = "publish"
    /\ \/ StoreRaises(k)
       \/ /\ ~dbDown
          /\ \/ /\ published' = PublishedEvent(tasks[k].tid, tickets[tasks[k].tid])
                /\ tasks' = [tasks EXCEPT ![k].pc = "done"]
             \/ /\ UNCHANGED published
                /\ tasks' = [tasks EXCEPT ![k] = OnPublishError(tasks[k])]
          /\ UNCHANGED <<tickets, dbDown, outages, claims, triageCalls,
                         t_in, t_out, wsVars>>

\* the task runner after the task raised: retry while retries are left
Raised(task) ==
    IF task.retries > 0
    THEN [task EXCEPT !.pc = "queued", !.retries = @ - 1]
    ELSE [task EXCEPT !.pc = "error"]

\* (mutant) the failure handler puts the ticket back to pending for the retry
FailureAssignment_BackToPending(msg) ==
    [status |-> "pending", error_message |-> Some(msg)]

\* lines 118-119: the attributes assigned by the failure handler
FailureAssignment(msg) ==
    [status |-> "failed", error_message |-> Some(msg)]

\* lines 108-120: rollback, reload, mark failed
Handler(k) ==
    /\ tasks[k].pc = "handler"
    /\ LET t == tasks[k].tid
       IN  \/ /\ dbDown
              /\ tasks' = [tasks EXCEPT ![k] = Raised(tasks[k])]
              /\ UNCHANGED tickets
           \/ /\ ~dbDown
              /\ tickets[t] = NoRow
              /\ tasks' = [tasks EXCEPT ![k] = Raised(tasks[k])]
              /\ UNCHANGED tickets
           \/ /\ ~dbDown
              /\ tickets[t] # NoRow
              /\ \E n \in ErrTextLens :
                    tickets' = [tickets EXCEPT ![t] =
                        Flush(@, @, FailureAssignment(Truncate(n)))]
              /\ tasks' = [tasks EXCEPT ![k].pc = "handler_publish"]
    /\ UNCHANGED <<dbDown, outages, published, claims, triageCalls, t_in, t_out, wsVars>>

\* lines 122-135: publish the failure and re-raise
HandlerPublish(k) ==
    /\ tasks[k].pc = "handler_publish"
    /\ tasks' = [tasks EXCEPT ![k] = Raised(tasks[k])]
    /\ \/ /\ dbDown
          /\ UNCHANGED published
       \/ /\ ~dbDown
          /\ \/ published' = PublishedEvent(tasks[k].tid, tickets[tasks[k].tid])
             \/ UNCHANGED published
    /\ UNCHANGED <<tickets, dbDown, outages, claims, triageCalls, t_in, t_out, wsVars>>

\* api/tickets.py resolve_ticket
resolve_ticket(t) ==
    /\ ~dbDown
    /\ tickets[t] # NoRow
    /\ tickets' = [tickets EXCEPT ![t].status = "completed",
                                  ![t].agent_id = Some("agent"),
                                  ![t].resolved_at = Some("now")]
    /\ UNCHANGED <<tasks, dbDown, outages, published, claims, triageCalls,
                   t_in, t_out, wsVars>>

\* the texts an agent sends in a PATCH: none, or an edited response
AgentEdits == {NULL, Some("edited")}

\* (mutant) the PATCH also puts the ticket back to pending
update_ticket_ResetsStatus(t) ==
    /\ ~dbDown
    /\ tickets[t] # NoRow
    /\ \E edit \in AgentEdits :
          tickets' = IF edit = NULL THEN tickets
                     ELSE [tickets EXCEPT ![t].agent_edited_response = edit,
                                          ![t].status = "pending"]
    /\ UNCHANGED <<tasks, dbDown, outages, published, claims, triageCalls,
                   t_in, t_out, wsVars>>

\* api/tickets.py update_ticket, lines 209-220: the row is loaded,
\* agent_edited_response is assigned when the request carries one, and the
\* commit writes the assigned attribute
update_ticket(t) ==
    /\ ~dbDown
    /\ tickets[t] # NoRow
    /\ \E edit \in AgentEdits :
          tickets' = IF edit = NULL THEN tickets
                     ELSE [tickets EXCEPT ![t].agent_edited_response = edit]
    /\ UNCHANGED <<tasks, dbDown, outages, published, claims, triageCalls,
                   t_in, t_out, wsVars>>

\* the environment: the store becomes unreachable, and reachable again
StoreGoesDown ==
    /\ ~dbDown
    /\ outages < MaxOutages
    /\ dbDown' = TRUE
    /\ outages' = outages + 1
    /\ UNCHANGED <<tickets, tasks, published, claims, triageCalls, t_in, t_out, wsVars>>

StoreComesBack ==
    /\ dbDown
    /\ dbDown' = FALSE
    /\ UNCHANGED <<tickets, tasks, outages, published, claims, triageCalls,
                   t_in, t_out, wsVars>>

\* =================================================================
\* api/websocket.py: the connection registry, the client protocol and
\* the dispatch of bridge events; app/pubsub.py: the channel listener
\* =================================================================
Conns == 1..MaxConns
ListenerIds == 1..MaxListeners
\* ids a client or a channel message can name: any integer, so also ids
\* that no ticket has
SubjectIds == 1..MaxSubjects

Row(t) == IF t \in TicketIds THEN tickets[t] ELSE NoRow

\* models/ticket.py: the attributes an instance loaded from the store has
TicketAttributes ==
    {"id", "customer_complaint", "status", "category", "sentiment_score",
     "urgency", "ai_draft_response", "agent_edited_response", "resolved_at",
     "agent_id", "created_at", "updated_at", "error_message"}

\* models/schemas.py TicketResponse: no field has a default, so each one is
\* required, the Optional ones too
TicketResponseFields ==
    {"id", "customer_complaint", "status", "category", "sentiment_score",
     "urgency", "ai_draft_response", "ai_status", "agent_edited_response",
     "resolved_at", "agent_id", "created_at", "updated_at", "error_message"}

ValidationError == [error |-> "ValidationError"]

\* (mutant) the validation takes every loaded ticket
TicketResponse_model_validate_Lenient(t, row) ==
    [type |-> "ticket_updated", via |-> "snapshot", ticket_id |-> t,
     status |-> row.status]

\* TicketResponse.model_validate(ticket) with from_attributes: a required
\* field the object has no attribute for is a validation error
TicketResponse_model_validate(t, row) ==
    IF TicketResponseFields \subseteq TicketAttributes
    THEN [type |-> "ticket_updated", via |-> "snapshot", ticket_id |-> t,
          status |-> row.status]
    ELSE ValidationError

Range(q) == {q[i] : i \in 1..Len(q)}

\* the rows of `Ticket.id IN ticket_ids`, by id
RECURSIVE QueryIn(_, _)
QueryIn(ids, t) ==
    IF t > MaxSubjects THEN <<>>
    ELSE (IF t \in ids /\ Row(t) # NoRow THEN <<t>> ELSE <<>>)
         \o QueryIn(ids, t + 1)

\* the loop of fetch_ticket_snapshots: an exception ends it and what was
\* collected so far is returned
RECURSIVE SnapshotLoop(_, _)
SnapshotLoop(found, results) ==
    IF found = <<>> THEN results
    ELSE LET data == TicketResponse_model_validate(Head(found), Row(Head(found)))
         IN IF data = ValidationError THEN results
            ELSE SnapshotLoop(Tail(found), Append(results, data))

fetch_ticket_snapshots(ticket_ids) ==
    IF dbDown THEN <<>>
    ELSE SnapshotLoop(QueryIn(Range(ticket_ids), 1), <<>>)

\* ------------------------------------------------ frames from a client
\* ticket_ids as the client sent it: a JSON list of entries, or a scalar
RawList(q) == [list |-> q]
RawScalar == [scalar |-> 1]
IsList(raw) == DOMAIN raw = {"list"}

\* JSON numbers that json.loads gives a float for: whole.5, and a literal
\* beyond the float range (1e999), which it reads as infinity
JFloat(whole) == [whole |-> whole, frac |-> 5]
JInf == [inf |-> TRUE]
IsFloat(v) == DOMAIN v = {"whole", "frac"}
IsInf(v) == DOMAIN v = {"inf"}

RawIdInputs ==
    {RawList(<<JNum(t)>>) : t \in SubjectIds}
    \cup {RawList(<<JNum(1), JNum(2)>>), RawList(<<JNum(1), JStr("x")>>),
          RawList(<<JFloat(1)>>), RawList(<<JNum(1), JInf>>),
          RawScalar}

BadJson == [frame |-> "not json"]
NotObject == [frame |-> "json list"]
Ping == [frame |-> "object", action |-> "ping"]
UnknownAction == [frame |-> "object", action |-> "bogus"]
SubscribeRequest(raw) ==
    [frame |-> "object", action |-> "subscribe", ticket_ids |-> raw]
UnsubscribeRequest(raw) ==
    [frame |-> "object", action |-> "unsubscribe", ticket_ids |-> raw]

ClientFrames ==
    {BadJson, NotObject, Ping, UnknownAction}
    \cup {SubscribeRequest(raw) : raw \in RawIdInputs}
    \cup {UnsubscribeRequest(raw) : raw \in RawIdInputs}

\* int(x) on a JSON scalar: an integer converts, a finite float is
\* truncated, a string converts when it spells an integer (else
\* ValueError), and an infinite float raises OverflowError
DigitStrings == <<"1", "2", "3">>
Converts(x) ==
    \/ IsNum(x)
    \/ IsFloat(x)
    \/ IsStr(x) /\ \E i \in 1..Len(DigitStrings) : DigitStrings[i] = x.str
int(x) ==
    IF IsNum(x) THEN x.num
    ELSE IF IsFloat(x) THEN x.whole
    ELSE CHOOSE i \in 1..Len(DigitStrings) : DigitStrings[i] = x.str

\* the exception int(x) raises for an entry that does not convert
IntError(x) == IF IsInf(x) THEN "OverflowError" ELSE "ValueError"

\* [int(x) for x in raw_ids]: the first entry that does not convert raises
AllInts(q) == \A i \in 1..Len(q) : Converts(q[i])
ToInts(q) == [i \in 1..Len(q) |-> int(q[i])]
FirstError(q) ==
    IntError(q[CHOOSE i \in 1..Len(q) :
                  /\ ~Converts(q[i])
                  /\ \A j \in 1..(i - 1) : Converts(q[j])])

\* `except (ValueError, TypeError)` at lines 166 and 203
Caught(e) == e \in {"ValueError", "TypeError"}

\* the unsubscribe branch keeps the entries that convert
RECURSIVE ValidInts(_)
ValidInts(q) ==
    IF q = <<>> THEN <<>>
    ELSE (IF Converts(Head(q)) THEN <<int(Head(q))>> ELSE <<>>)
         \o ValidInts(Tail(q))

\* ------------------------------------------------ frames to a client
Subscribed(ids) == [type |-> "subscribed", ticket_ids |-> ids]
Pong == [type |-> "pong"]
ErrorFrame(m) == [type |-> "error", message |-> m]
TicketUpdated(msg) ==
    [type |-> "ticket_updated", via |-> "event", ticket_id |-> msg.ticket_id,
     status |-> msg.status, n |-> msg.n]

\* ------------------------------------------------ ConnectionManager
\* subscribe: active_connections is a defaultdict, so naming an id
\* creates its entry
subscribe(ac, c, ticket_ids) ==
    [t \in DOMAIN ac \cup Range(ticket_ids) |->
        (IF t \in DOMAIN ac THEN ac[t] ELSE {})
        \cup (IF t \in Range(ticket_ids) THEN {c} ELSE {})]

\* unsubscribe: discards from the entries that exist and leaves them
unsubscribe(ac, c, ticket_ids) ==
    [t \in DOMAIN ac |->
        IF t \in Range(ticket_ids) THEN ac[t] \ {c} ELSE ac[t]]

\* (mutant) disconnect discards c and leaves the emptied entries
disconnect_entries_KeepsEmptied(ac, c) == [t \in DOMAIN ac |-> ac[t] \ {c}]

\* (mutant) disconnect leaves the subscriber sets as they are
disconnect_entries_KeepsSubscriptions(ac, c) == ac

\* disconnect, lines 47-51: discard c where it is and delete the entries
\* this empties
disconnect_entries(ac, c) ==
    [t \in {u \in DOMAIN ac : ~(c \in ac[u] /\ ac[u] = {c})} |-> ac[t] \ {c}]

\* list(set): the iteration order of a set is not specified
Orders(S) ==
    {q \in [1..Cardinality(S) -> S] :
        \A i, j \in 1..Cardinality(S) : i # j => q[i] # q[j]}

coreVars == <<tickets, tasks, dbDown, outages, published, claims,
              triageCalls, t_in, t_out>>

\* ids: the ticket_ids of the subscribe being handled; snaps: the
\* snapshots still to send; awaiting: the task disconnect awaits; due: the
\* tickets of that subscribe that were completed in the store when it was
\* handled
ClosedConn ==
    [pc |-> "closed", ids |-> <<>>, snaps |-> <<>>, awaiting |-> NULL,
     due |-> {}]

\* reused: the slot has held an earlier listener task
UnusedListener ==
    [pc |-> "unused", inbox |-> <<>>, msg |-> None, subs |-> <<>>,
     exit |-> "none", reused |-> FALSE]

UnusedListeners == {l \in ListenerIds : listeners[l].pc = "unused"}

\* connect: accept, register, and create the listener task when the
\* manager references none
Connect(c) ==
    /\ conn[c].pc = "closed"
    /\ \A l \in ListenerIds : c \notin Range(listeners[l].subs)
    /\ sock' = [sock EXCEPT ![c] = "open"]
    /\ conn' = [conn EXCEPT ![c] = [ClosedConn EXCEPT !.pc = "receive"]]
    /\ all_connections' = all_connections \cup {c}
    /\ outbox' = [outbox EXCEPT ![c] = <<>>]
    /\ IF redis_task = NULL
       THEN /\ UnusedListeners # {}
            /\ LET l == CHOOSE l \in UnusedListeners :
                            \A k \in UnusedListeners : l <= k
               IN /\ listeners' = [listeners EXCEPT ![l].pc = "starting"]
                  /\ redis_task' = Some(l)
       ELSE UNCHANGED <<listeners, redis_task>>
    /\ received' = [received EXCEPT ![c] = None]
    /\ UNCHANGED <<active_connections, events, requests, dispatched,
                   attempts, coreVars>>

\* the peer goes away; the server learns of it at its next receive or send
ClientCloses(c) ==
    /\ sock[c] = "open"
    /\ sock' = [sock EXCEPT ![c] = "gone"]
    /\ UNCHANGED <<conn, all_connections, active_connections, redis_task,
                   listeners, outbox, events, requests, dispatched, attempts,
                   coreVars, received>>

\* Task.cancel(): a finished task stays finished
cancel(L) == IF L.pc = "done" THEN L ELSE [L EXCEPT !.pc = "cancelled"]

\* disconnect up to its await: ac is the registry as the handler left it.
\* The frames sent to a connection are kept while its handler runs.
disconnect(c, ac) ==
    LET remaining == all_connections \ {c} IN
    /\ all_connections' = remaining
    /\ active_connections' = disconnect_entries(ac, c)
    /\ IF remaining = {} /\ redis_task # NULL
       THEN /\ listeners' =
                 [l \in ListenerIds |->
                     IF l \in redis_task THEN cancel(listeners[l])
                     ELSE listeners[l]]
            /\ conn' = [conn EXCEPT ![c] =
                          [ClosedConn EXCEPT !.pc = "disc_await",
                                             !.awaiting = redis_task]]
            /\ UNCHANGED <<sock, outbox>>
       ELSE /\ conn' = [conn EXCEPT ![c] = ClosedConn]
            /\ sock' = [sock EXCEPT ![c] = "none"]
            /\ outbox' = [outbox EXCEPT ![c] = <<>>]
            /\ UNCHANGED listeners
    /\ UNCHANGED redis_task

\* disconnect after `await self.redis_task`: the reference is cleared
DisconnectResume(c) ==
    /\ conn[c].pc = "disc_await"
    /\ \A l \in conn[c].awaiting : listeners[l].pc = "done"
    /\ redis_task' = NULL
    /\ conn' = [conn EXCEPT ![c] = ClosedConn]
    /\ sock' = [sock EXCEPT ![c] = "none"]
    /\ outbox' = [outbox EXCEPT ![c] = <<>>]
    /\ UNCHANGED <<all_connections, active_connections, listeners, events,
                   requests, dispatched, attempts, coreVars, received>>

\* what websocket_endpoint does with one received frame
Handle(f) ==
    IF f = BadJson
    THEN [do |-> "reply", frame |-> ErrorFrame("Invalid JSON format")]
    ELSE IF f = NotObject
    THEN [do |-> "raise"]
    ELSE IF f.action = "subscribe"
    THEN IF ~IsList(f.ticket_ids)
         THEN [do |-> "reply",
               frame |-> ErrorFrame("ticket_ids must be a list of integers")]
         ELSE IF AllInts(f.ticket_ids.list)
         THEN [do |-> "subscribe", ids |-> ToInts(f.ticket_ids.list)]
         ELSE IF Caught(FirstError(f.ticket_ids.list))
         THEN [do |-> "reply",
               frame |-> ErrorFrame("All ticket_ids must be valid integers")]
         ELSE [do |-> "raise"]
    ELSE IF f.action = "unsubscribe"
    THEN IF ~IsList(f.ticket_ids)
         THEN [do |-> "nothing"]
         ELSE IF \E i \in 1..Len(f.ticket_ids.list) :
                    /\ ~Converts(f.ticket_ids.list[i])
                    /\ ~Caught(IntError(f.ticket_ids.list[i]))
         THEN [do |-> "raise"]
         ELSE [do |-> "unsubscribe", ids |-> ValidInts(f.ticket_ids.list)]
    ELSE IF f.action = "ping"
    THEN [do |-> "reply", frame |-> Pong]
    ELSE [do |-> "reply", frame |-> ErrorFrame("Unknown action")]

\* one turn of the receive loop on frame f, up to its next await
ReceiveFrame(c, f) ==
    /\ conn[c].pc = "receive"
    /\ requests < MaxRequests
    /\ requests' = requests + 1
    /\ LET h == Handle(f) IN
           CASE h.do = "reply" ->
                IF sock[c] = "open"
                THEN /\ outbox' = [outbox EXCEPT ![c] = Append(@, h.frame)]
                     /\ UNCHANGED <<sock, conn, all_connections,
                                    active_connections, listeners>>
                ELSE disconnect(c, active_connections)
          [] h.do = "raise" ->
                disconnect(c, active_connections)
          [] h.do = "nothing" ->
                UNCHANGED <<sock, conn, all_connections, active_connections,
                            listeners, outbox>>
          [] h.do = "unsubscribe" ->
                /\ active_connections' =
                       unsubscribe(active_connections, c, h.ids)
                /\ UNCHANGED <<sock, conn, all_connections, listeners, outbox>>
          [] h.do = "subscribe" ->
                IF sock[c] = "open"
                THEN /\ active_connections' =
                            subscribe(active_connections, c, h.ids)
                     /\ outbox' = [outbox EXCEPT
                                     ![c] = Append(@, Subscribed(h.ids))]
                     /\ conn' = [conn EXCEPT
                          ![c].pc = "fetch",
                          ![c].ids = h.ids,
                          ![c].due = {t \in Range(h.ids) :
                                         /\ Row(t) # NoRow
                                         /\ Row(t).status = "completed"}]
                     /\ UNCHANGED <<sock, all_connections, listeners>>
                ELSE disconnect(c, subscribe(active_connections, c, h.ids))
    /\ UNCHANGED <<redis_task, events, dispatched, attempts, coreVars>>

\* a turn of the receive loop on any frame a client can send
Receive(c) ==
    /\ \E f \in ClientFrames : ReceiveFrame(c, f)
    /\ UNCHANGED received

\* a turn of the receive loop with clients that send nothing but the
\* subscribe request for the first ticket
ReceiveSubscribe(c) ==
    /\ ReceiveFrame(c, SubscribeRequest(RawList(<<JNum(1)>>)))
    /\ UNCHANGED received

\* the same turn, with the frame kept for the protocol properties
ReceiveLogged(c) ==
    \E f \in ClientFrames :
        /\ ReceiveFrame(c, f)
        /\ received' = [received EXCEPT ![c] = [frame |-> f, n |-> requests']]

\* receive_json raises WebSocketDisconnect
ReceiveDisconnect(c) ==
    /\ conn[c].pc = "receive"
    /\ sock[c] = "gone"
    /\ disconnect(c, active_connections)
    /\ UNCHANGED <<events, requests, dispatched, attempts, coreVars, received>>

\* lines 182-192: the snapshots are read in the thread pool, then sent one
\* by one; an exception of a send is logged and the loop is left
SnapshotStep(c) ==
    /\ conn[c].pc \in {"fetch", "snap"}
    /\ IF conn[c].pc = "fetch"
       THEN LET snapshots == fetch_ticket_snapshots(conn[c].ids) IN
            /\ conn' = [conn EXCEPT
                 ![c].pc = IF snapshots = <<>> THEN "receive" ELSE "snap",
                 ![c].snaps = snapshots]
            /\ UNCHANGED outbox
       ELSE LET snapshot == Head(conn[c].snaps) IN
            IF sock[c] = "open"
            THEN /\ outbox' = [outbox EXCEPT ![c] = Append(@, snapshot)]
                 /\ conn' = [conn EXCEPT
                      ![c].snaps = Tail(@),
                      ![c].pc = IF Tail(conn[c].snaps) = <<>>
                                THEN "receive" ELSE "snap"]
            ELSE /\ conn' = [conn EXCEPT ![c].snaps = <<>>,
                                         ![c].pc = "receive"]
                 /\ UNCHANGED outbox
    /\ UNCHANGED <<sock, all_connections, active_connections, redis_task,
                   listeners, events, requests, dispatched, attempts,
                   coreVars, received>>

\* ------------------------------------------------ the bridge listener
\* the status carried by the messages put on the channel
EventStatuses == {"completed"}

Subscribed_(L) == L.pc \in {"listening", "broadcast"}

\* a message is published on the channel: every subscribed listener
\* gets it, in publication order
ChannelPublish ==
    /\ events < MaxEvents
    /\ events' = events + 1
    /\ \E t \in SubjectIds, s \in EventStatuses :
        listeners' =
            [l \in ListenerIds |->
                IF Subscribed_(listeners[l])
                THEN [listeners[l] EXCEPT !.inbox =
                        Append(@, [ticket_id |-> t, status |-> s,
                                   n |-> events + 1])]
                ELSE listeners[l]]
    /\ UNCHANGED <<sock, conn, all_connections, active_connections,
                   redis_task, outbox, requests, dispatched, attempts,
                   coreVars, received>>

\* channel messages that publish_ticket_update does not produce: text
\* that is not JSON, JSON that is not an object (a list), an object
\* without ticket_id, and an object with ticket_id and without data
MalformedMessages(n) ==
    {[json |-> j, n |-> n] : j \in {"invalid", "list", "object"}}
    \cup {[ticket_id |-> t, n |-> n] : t \in SubjectIds}
Malformed(msg) == "json" \in DOMAIN msg \/ "status" \notin DOMAIN msg

\* another publisher puts a malformed message on the channel
ChannelPublishMalformed ==
    /\ events < MaxEvents
    /\ events' = events + 1
    /\ \E m \in MalformedMessages(events + 1) :
        listeners' =
            [l \in ListenerIds |->
                IF Subscribed_(listeners[l])
                THEN [listeners[l] EXCEPT !.inbox = Append(@, m)]
                ELSE listeners[l]]
    /\ UNCHANGED <<sock, conn, all_connections, active_connections,
                   redis_task, outbox, requests, dispatched, attempts,
                   coreVars, received>>

\* subscribe_ticket_updates_async up to `pubsub.subscribe`
ListenerSubscribe(l) ==
    /\ listeners[l].pc = "starting"
    /\ listeners' = [listeners EXCEPT ![l].pc = "listening"]
    /\ UNCHANGED <<sock, conn, all_connections, active_connections,
                   redis_task, outbox, events, requests, dispatched,
                   attempts, coreVars, received>>

\* (mutant) the event goes to every registered connection
Subscribers_Everyone(ac, t) == all_connections

\* lines 102-110: the connections the event is for, none when the ticket
\* has no entry
Subscribers(ac, t) == IF t \in DOMAIN ac THEN ac[t] ELSE {}

\* pubsub.py lines 123-127 and websocket.py lines 98-111, for one message:
\* json.loads raises JSONDecodeError, which the loop catches ("skip");
\* data.get on a value that is not a dict raises AttributeError and
\* data["data"] on an object without it raises KeyError, which leave the
\* callback and the loop ("raise"); a message without ticket_id or for a
\* ticket without subscribers is dropped ("skip")
OnMessage(msg, ac) ==
    IF "json" \in DOMAIN msg
    THEN (IF msg.json = "list" THEN "raise" ELSE "skip")
    ELSE IF msg.ticket_id \notin DOMAIN ac THEN "skip"
    ELSE IF "status" \notin DOMAIN msg THEN "raise"
    ELSE IF Subscribers(ac, msg.ticket_id) = {} THEN "skip"
    ELSE "broadcast"

\* pubsub.py lines 129-133: an exception other than JSONDecodeError ends
\* the loop; the task closes its subscription and returns
OnCallbackError(L) ==
    [L EXCEPT !.pc = "done", !.exit = "error", !.inbox = <<>>]

\* the next message of `pubsub.listen()` and broadcast_ticket_update up
\* to its first send: the subscribers of the ticket are cloned
ListenerNext(l) ==
    /\ listeners[l].pc = "listening"
    /\ listeners[l].inbox # <<>>
    /\ LET msg == Head(listeners[l].inbox)
           t == msg.ticket_id
           on == OnMessage(msg, active_connections)
       IN IF on = "raise"
          THEN /\ listeners' = [listeners EXCEPT
                                  ![l] = OnCallbackError(listeners[l])]
               /\ UNCHANGED dispatched
          ELSE IF on = "broadcast"
          THEN /\ \E subscribers \in Orders(Subscribers(active_connections, t)) :
                    listeners' = [listeners EXCEPT
                        ![l].pc = "broadcast",
                        ![l].inbox = Tail(@),
                        ![l].msg = msg,
                        ![l].subs = subscribers]
               /\ dispatched' = dispatched \cup
                    {[l |-> l, n |-> msg.n, t |-> t,
                      targets |-> {c \in Conns :
                                     /\ t \in DOMAIN active_connections
                                     /\ c \in active_connections[t]}]}
          ELSE /\ listeners' = [listeners EXCEPT ![l].inbox = Tail(@)]
               /\ UNCHANGED dispatched
    /\ UNCHANGED <<sock, conn, all_connections, active_connections,
                   redis_task, outbox, events, requests, attempts, coreVars, received>>

\* the loop goes on to the next subscriber; after the last one the
\* listener waits for the next message
NextSubscriber(L) ==
    IF Tail(L.subs) = <<>>
    THEN [L EXCEPT !.subs = <<>>, !.msg = None, !.pc = "listening"]
    ELSE [L EXCEPT !.subs = Tail(@)]

\* an exception of send_json that leaves broadcast_ticket_update ends
\* the listener's loop in its `except Exception`
OnSendError_Propagates(L) ==
    [L EXCEPT !.pc = "done", !.exit = "send_error", !.inbox = <<>>]

\* lines 116-118: the exception of a send is logged and ignored
OnSendError(L) == NextSubscriber(L)

\* one `await connection.send_json(message)` of the loop
BroadcastSend(l) ==
    /\ listeners[l].pc = "broadcast"
    /\ LET L == listeners[l]
           c == Head(L.subs)
           ok == sock[c] = "open"
           d == CHOOSE d \in dispatched : d.l = l /\ d.n = L.msg.n
           at == Cardinality(d.targets) - Len(L.subs) + 1
       IN /\ attempts' = attempts \cup
                {[l |-> l, n |-> L.msg.n, c |-> c, at |-> at, ok |-> ok]}
          /\ IF ok
             THEN /\ outbox' = [outbox EXCEPT
                                  ![c] = Append(@, TicketUpdated(L.msg))]
                  /\ listeners' = [listeners EXCEPT ![l] = NextSubscriber(L)]
             ELSE /\ listeners' = [listeners EXCEPT ![l] = OnSendError(L)]
                  /\ UNCHANGED outbox
    /\ UNCHANGED <<sock, conn, all_connections, active_connections,
                   redis_task, events, requests, dispatched, coreVars, received>>

\* the task object of a listener that has ended and that nothing
\* references any more is gone: its slot, and the record of what it
\* dispatched, are free for the task a later connect creates
ListenerCollected(l) ==
    /\ listeners[l].pc = "done"
    /\ l \notin redis_task
    /\ \A c \in Conns : l \notin conn[c].awaiting
    /\ Cardinality({k \in ListenerIds : listeners[k].reused}) < MaxReuse
    /\ listeners' = [listeners EXCEPT
                        ![l] = [UnusedListener EXCEPT !.reused = TRUE]]
    /\ dispatched' = {d \in dispatched : d.l # l}
    /\ attempts' = {a \in attempts : a.l # l}
    /\ UNCHANGED <<sock, conn, all_connections, active_connections,
                   redis_task, outbox, events, requests, coreVars, received>>

\* the cancelled listener unwinds through its `finally` and ends
ListenerExits(l) ==
    /\ listeners[l].pc = "cancelled"
    /\ listeners' = [listeners EXCEPT ![l].pc = "done",
                                      ![l].exit = "cancelled",
                                      ![l].inbox = <<>>]
    /\ UNCHANGED <<sock, conn, all_connections, active_connections,
                   redis_task, outbox, events, requests, dispatched,
                   attempts, coreVars, received>>

\* pubsub.py lines 117-133: `pubsub.subscribe` or `pubsub.listen()` raises
\* (the broker is gone, the transport fails); `except Exception` logs it,
\* `finally` closes the subscription and the task returns
ListenerBrokerError(l) ==
    /\ listeners[l].pc \in {"starting", "listening"}
    /\ listeners' = [listeners EXCEPT ![l].pc = "done",
                                      ![l].exit = "broker_error",
                                      ![l].inbox = <<>>]
    /\ UNCHANGED <<sock, conn, all_connections, active_connections,
                   redis_task, outbox, events, requests, dispatched,
                   attempts, coreVars, received>>

WsInit ==
    /\ sock = [c \in Conns |-> "none"]
    /\ conn = [c \in Conns |-> ClosedConn]
    /\ all_connections = {}
    /\ active_connections = [t \in {} |-> {}]
    /\ redis_task = NULL
    /\ listeners = [l \in ListenerIds |-> UnusedListener]
    /\ outbox = [c \in Conns |-> <<>>]
    /\ events = 0
    /\ requests = 0
    /\ dispatched = {}
    /\ attempts = {}
    /\ received = [c \in Conns |-> None]

Init ==
    /\ WsInit
    /\ tickets = [t \in TicketIds |-> NoRow]
    /\ tasks = [k \in Tasks |-> IdleTask]
    /\ dbDown = FALSE
    /\ outages = 0
    /\ published = [t \in TicketIds |-> [s \in TicketStatus |-> 0]]
    /\ claims = [t \in TicketIds |-> 0]
    /\ triageCalls = [t \in TicketIds |-> 0]
    /\ t_in = ProviderRaise
    /\ t_out = None

Next ==
    \/ create_ticket
    \/ Enqueue
    \/ \E k \in Tasks : Claim(k)
    \/ \E k \in Tasks : Refresh(k)
    \/ \E k \in Tasks : Triage(k)
    \/ \E k \in Tasks : Commit(k)
    \/ \E k \in Tasks : Publish(k)
    \/ \E k \in Tasks : Handler(k)
    \/ \E k \in Tasks : HandlerPublish(k)
    \/ \E t \in TicketIds : resolve_ticket(t)
    \/ \E t \in TicketIds : update_ticket(t)
    \/ StoreGoesDown
    \/ StoreComesBack

Spec == Init /\ [][Next]_vars

\* a step of the worker that runs task k
TaskStep(k) ==
    \/ Claim(k)
    \/ Refresh(k)
    \/ Triage(k)
    \/ Commit(k)
    \/ Publish(k)
    \/ Handler(k)
    \/ HandlerPublish(k)

\* The consumer takes every queued task and the worker that runs a task
\* goes on to its next statement; an outage of the store ends.
SpecLive ==
    /\ Init
    /\ [][Next]_vars
    /\ \A k \in Tasks : WF_vars(TaskStep(k))
    /\ WF_vars(StoreComesBack)

\* ----------------------------------- the classifier as a pure function
InitTriage ==
    /\ WsInit
    /\ tickets = [t \in TicketIds |-> NoRow]
    /\ tasks = [k \in Tasks |-> IdleTask]
    /\ dbDown = FALSE
    /\ outages = 0
    /\ published = [t \in TicketIds |-> [s \in TicketStatus |-> 0]]
    /\ claims = [t \in TicketIds |-> 0]
    /\ triageCalls = [t \in TicketIds |-> 0]
    /\ t_in \in ProviderOutputs
    /\ t_out = None

TriageComplaintCall ==
    /\ t_out = None
    /\ t_out' = triage_complaint(t_in)
    /\ UNCHANGED <<wsVars, t_in, tickets, tasks, dbDown, outages, published, claims,
                   triageCalls>>

NextTriage == TriageComplaintCall

SpecTriage == InitTriage /\ [][NextTriage]_vars

\* ------------------- the multiplexer beside a store that tickets are
\* created and resolved in (the task queue takes every task here: no
\* worker runs in this specification)
InitWS == Init

NextWS ==
    \/ CreateTicket(TRUE)
    \/ \E t \in TicketIds : resolve_ticket(t)
    \/ \E c \in Conns : Connect(c)
    \/ \E c \in Conns : ClientCloses(c)
    \/ \E c \in Conns : Receive(c)
    \/ \E c \in Conns : ReceiveDisconnect(c)
    \/ \E c \in Conns : SnapshotStep(c)
    \/ \E c \in Conns : DisconnectResume(c)
    \/ ChannelPublish
    \/ \E l \in ListenerIds : ListenerSubscribe(l)
    \/ \E l \in ListenerIds : ListenerNext(l)
    \/ \E l \in ListenerIds : BroadcastSend(l)
    \/ \E l \in ListenerIds : ListenerExits(l)

SpecWS == InitWS /\ [][NextWS]_vars

\* the client protocol and the bridge without the store: every frame a
\* handler takes is kept in `received`
NextProtocol ==
    \/ \E c \in Conns : Connect(c)
    \/ \E c \in Conns : ClientCloses(c)
    \/ \E c \in Conns : ReceiveLogged(c)
    \/ \E c \in Conns : ReceiveDisconnect(c)
    \/ \E c \in Conns : SnapshotStep(c)
    \/ \E c \in Conns : DisconnectResume(c)
    \/ ChannelPublish
    \/ \E l \in ListenerIds : ListenerSubscribe(l)
    \/ \E l \in ListenerIds : ListenerNext(l)
    \/ \E l \in ListenerIds : BroadcastSend(l)
    \/ \E l \in ListenerIds : ListenerExits(l)

SpecProtocol == InitWS /\ [][NextProtocol]_vars

\* the bridge without the store, with clients that subscribe to the first
\* ticket, on a channel that also carries malformed messages, and with the
\* slot of an ended listener reused
NextBridge ==
    \/ \E c \in Conns : Connect(c)
    \/ \E c \in Conns : ClientCloses(c)
    \/ \E c \in Conns : ReceiveSubscribe(c)
    \/ \E c \in Conns : ReceiveDisconnect(c)
    \/ \E c \in Conns : SnapshotStep(c)
    \/ \E c \in Conns : DisconnectResume(c)
    \/ ChannelPublish
    \/ ChannelPublishMalformed
    \/ \E l \in ListenerIds : ListenerSubscribe(l)
    \/ \E l \in ListenerIds : ListenerNext(l)
    \/ \E l \in ListenerIds : BroadcastSend(l)
    \/ \E l \in ListenerIds : ListenerExits(l)
    \/ \E l \in ListenerIds : ListenerCollected(l)

SpecBridge == InitWS /\ [][NextBridge]_vars

\* the bridge without the store, on a broker whose connection to the
\* listener can fail at any time
NextBroker ==
    \/ \E c \in Conns : Connect(c)
    \/ \E c \in Conns : ClientCloses(c)
    \/ \E c \in Conns : ReceiveSubscribe(c)
    \/ \E c \in Conns : ReceiveDisconnect(c)
    \/ \E c \in Conns : SnapshotStep(c)
    \/ \E c \in Conns : DisconnectResume(c)
    \/ ChannelPublish
    \/ \E l \in ListenerIds : ListenerSubscribe(l)
    \/ \E l \in ListenerIds : ListenerNext(l)
    \/ \E l \in ListenerIds : BroadcastSend(l)
    \/ \E l \in ListenerIds : ListenerExits(l)
    \/ \E l \in ListenerIds : ListenerBrokerError(l)

SpecBroker == InitWS /\ [][NextBroker]_vars

\* connections that stay connected, beside a store in which tickets are
\* created and resolved: the handler of a connection and the listener
\* task are coroutines of one event loop, which runs every coroutine that
\* is ready
NextResident ==
    \/ CreateTicket(TRUE)
    \/ \E t \in TicketIds : resolve_ticket(t)
    \/ \E c \in Conns : Connect(c)
    \/ \E c \in Conns : ReceiveSubscribe(c)
    \/ \E c \in Conns : SnapshotStep(c)
    \/ ChannelPublish
    \/ \E l \in ListenerIds : ListenerSubscribe(l)
    \/ \E l \in ListenerIds : ListenerNext(l)
    \/ \E l \in ListenerIds : BroadcastSend(l)

SpecResident ==
    /\ InitWS
    /\ [][NextResident]_vars
    /\ \A c \in Conns : WF_vars(SnapshotStep(c))
    /\ \A l \in ListenerIds :
          WF_vars(ListenerSubscribe(l) \/ ListenerNext(l) \/ BroadcastSend(l))

\* a turn of the receive loop on the unsubscribe request for the first
\* ticket
ReceiveUnsubscribe(c) ==
    /\ ReceiveFrame(c, UnsubscribeRequest(RawList(<<JNum(1)>>)))
    /\ UNCHANGED received

\* the registry once every connection has connected and subscribed to the
\* first ticket: each handler has sent its acknowledgement and waits for
\* the next request, and the listener the first connect started is in
\* its loop
InitSubscribed ==
    /\ sock = [c \in Conns |-> "open"]
    /\ conn = [c \in Conns |-> [ClosedConn EXCEPT !.pc = "receive",
                                                  !.ids = <<1>>]]
    /\ all_connections = Conns
    /\ active_connections = [t \in {1} |-> Conns]
    /\ redis_task = Some(1)
    /\ listeners = [l \in ListenerIds |->
                      IF l = 1 THEN [UnusedListener EXCEPT !.pc = "listening"]
                      ELSE UnusedListener]
    /\ outbox = [c \in Conns |-> <<Subscribed(<<1>>)>>]
    /\ events = 0
    /\ requests = 0
    /\ dispatched = {}
    /\ attempts = {}
    /\ received = [c \in Conns |-> None]
    /\ tickets = [t \in TicketIds |-> NoRow]
    /\ tasks = [k \in Tasks |-> IdleTask]
    /\ dbDown = FALSE
    /\ outages = 0
    /\ published = [t \in TicketIds |-> [s \in TicketStatus |-> 0]]
    /\ claims = [t \in TicketIds |-> 0]
    /\ triageCalls = [t \in TicketIds |-> 0]
    /\ t_in = ProviderRaise
    /\ t_out = None

\* subscribed connections that unsubscribe, subscribe again and leave
\* while events are dispatched
NextSubscribed ==
    \/ \E c \in Conns : Connect(c)
    \/ \E c \in Conns : ClientCloses(c)
    \/ \E c \in Conns : ReceiveSubscribe(c)
    \/ \E c \in Conns : ReceiveUnsubscribe(c)
    \/ \E c \in Conns : ReceiveDisconnect(c)
    \/ \E c \in Conns : SnapshotStep(c)
    \/ \E c \in Conns : DisconnectResume(c)
    \/ ChannelPublish
    \/ \E l \in ListenerIds : ListenerSubscribe(l)
    \/ \E l \in ListenerIds : ListenerNext(l)
    \/ \E l \in ListenerIds : BroadcastSend(l)
    \/ \E l \in ListenerIds : ListenerExits(l)

SpecSubscribed == InitSubscribed /\ [][NextSubscribed]_vars

\* =================================================================
\* Properties
\* =================================================================

\* the provider misbehaved: its call raised, or its output fails parsing or
\* the schema
Misbehaves(p) ==
    \/ p.kind = "raise"
    \/ ~Truthy(safe_parse_json(p))
    \/ validate_ai_response(safe_parse_json(p)) \in {None, TypeErrorRaised}

\* task k holds processing ownership of its ticket: its claim affected a row
\* and it has neither committed a result nor marked the ticket failed
Owns(k) ==
    /\ tasks[k].rowcount = Some(1)
    /\ tasks[k].pc \in {"refresh", "triage", "commit", "handler"}

\* C1: of the workers executing the claim on one pending ticket exactly one
\* affects a row, the others see zero affected rows (and only once the ticket
\* is no longer pending), and no two attempts own the same ticket at once.
C1_ClaimExclusivity ==
    \A t \in TicketIds :
        /\ Cardinality({k \in Tasks : tasks[k].tid = t /\ Owns(k)}) <= 1
        /\ \A k \in Tasks :
              (tasks[k].tid = t /\ tasks[k].rowcount = Some(0))
                  => tickets[t].status # "pending"
        /\ ( /\ outages = 0
             /\ tickets[t] # NoRow
             /\ tickets[t].agent_id = NULL
             /\ \E k \in Tasks : tasks[k].tid = t /\ tasks[k].rowcount # NULL )
           => Cardinality({k \in Tasks :
                             tasks[k].tid = t /\ tasks[k].rowcount = Some(1)}) = 1

C1_Witness ==
    \E k, j \in Tasks :
        /\ k # j
        /\ tasks[k].tid = tasks[j].tid
        /\ Owns(k)
        /\ tasks[j].rowcount = Some(0)
        /\ tickets[tasks[k].tid].status = "processing"

\* C2: over the lifetime of a ticket the claim affects a row at most once and
\* triage_complaint is called at most once, whatever the interleaving of
\* workers, retries, duplicate tasks and manual resolution.
C2_AtMostOneClaim ==
    \A t \in TicketIds : claims[t] <= 1 /\ triageCalls[t] <= 1

C2_Witness ==
    \E k, j \in Tasks :
        /\ k # j
        /\ tasks[k].tid = tasks[j].tid
        /\ tasks[k].runs >= 2
        /\ tasks[j].runs >= 1
        /\ triageCalls[tasks[k].tid] = 1
        /\ tickets[tasks[k].tid].agent_id # NULL

\* C3: a claim step executed on a ticket that is completed or failed changes
\* nothing in the store, affects no row, and (when the store answers) ends the
\* task without a classifier call or an event.
C3_TerminalClaimIsNoop ==
    [][\A k \in Tasks :
        ( /\ tasks[k].pc = "queued"
          /\ tasks'[k].pc # "queued"
          /\ tickets[tasks[k].tid] # NoRow
          /\ tickets[tasks[k].tid].status \in Terminal )
        => /\ tickets' = tickets
           /\ claims' = claims
           /\ triageCalls' = triageCalls
           /\ published' = published
           /\ tasks'[k].rowcount # Some(1)
           /\ ~dbDown => (tasks'[k].pc = "done" /\ tasks'[k].rowcount = Some(0))
      ]_vars

C3_Witness ==
    \E k \in Tasks :
        /\ tasks[k].runs >= 2
        /\ tasks[k].pc = "done"
        /\ tasks[k].rowcount = Some(0)
        /\ tickets[tasks[k].tid].status = "failed"

\* C4: no step moves a ticket out of completed or failed.
C4_TerminalIsFinal ==
    [][\A t \in TicketIds :
        (tickets[t] # NoRow /\ tickets[t].status \in Terminal)
            => tickets'[t].status = tickets[t].status]_vars

\* C5: the failure handler writes failed only over processing, and only in
\* the attempt whose claim affected the row.
C5_FailedOnlyFromProcessing ==
    [][\A k \in Tasks :
        (tasks[k].pc = "handler" /\ tasks'[k].pc = "handler_publish")
            => /\ tickets[tasks[k].tid].status = "processing"
               /\ tasks[k].rowcount = Some(1)]_vars

\* C6: for a provider exception or an output that fails parsing or the schema,
\* triage_complaint yields a result within every field constraint and with
\* ai_status = fallback.
C6_FallbackSafety ==
    (t_out # None /\ Misbehaves(t_in))
        => (ResultValid(t_out) /\ t_out.ai_status = "fallback")

\* C7: when the provider misbehaves, the commit of the claimed ticket stores
\* status completed with the fallback values: sentiment_score 5 and
\* ai_status fallback.
C7_MisbehaviourCommitsFallback ==
    [][\A k \in Tasks :
        (tasks[k].pc = "commit" /\ tasks'[k].pc = "publish"
            /\ Misbehaves(tasks[k].prov))
        => /\ tickets'[tasks[k].tid].status = "completed"
           /\ tickets'[tasks[k].tid].sentiment_score = Some(FallbackSentiment)
           /\ tasks[k].ai.ai_status = "fallback"]_vars

\* C8 (as stated): a classifier that throws ends the ticket in failed after
\* exactly the retry bound of attempts.
C8_ThrowingClassifierFailsAfterRetries ==
    \A k \in Tasks :
        (tasks[k].prov = ProviderRaise /\ tasks[k].pc \in {"done", "error"})
            => /\ tickets[tasks[k].tid].status = "failed"
               /\ tasks[k].runs = TaskRetries

\* C8 (amended): a throwing classifier is converted to the fallback result, so
\* without a store error no task raises, no task is retried and no ticket
\* fails; a task that raises is run at most 1 + retries times.
C8_RetryBound ==
    /\ \A k \in Tasks : tasks[k].runs <= TaskRetries + 1
    /\ \A k \in Tasks :
          (tasks[k].prov = ProviderRaise /\ tasks[k].pc \in {"commit", "publish"})
              => tasks[k].ai = get_fallback_response
    /\ outages = 0 =>
          /\ \A k \in Tasks :
                /\ tasks[k].runs <= 1
                /\ tasks[k].pc \notin {"handler", "handler_publish", "error"}
          /\ \A t \in TicketIds :
                tickets[t] # NoRow => tickets[t].status # "failed"

C8_Witness ==
    \E k, j \in Tasks :
        /\ tasks[k].prov = ProviderRaise
        /\ tasks[k].pc = "done"
        /\ tasks[k].runs = 1
        /\ tickets[tasks[k].tid].status = "completed"
        /\ tasks[j].pc = "error"
        /\ tasks[j].runs = TaskRetries + 1

\* ------------------------------------------------ the multiplexer

\* C9: if ticket T is completed in the store when a connection's subscribe
\* for T is handled, then by the time the handler waits for the next
\* request the connection has been sent, after the subscribed
\* acknowledgement naming T, a ticket_updated frame read from the store
\* (not a bridge event) that shows T as completed.
C9_SnapshotOnSubscribe ==
    \A c \in Conns : \A t \in conn[c].due :
        (conn[c].pc = "receive" /\ sock[c] = "open") =>
            \E j \in 1..Len(outbox[c]) : \E i \in 1..(j - 1) :
                /\ outbox[c][i].type = "subscribed"
                /\ t \in Range(outbox[c][i].ticket_ids)
                /\ outbox[c][j].type = "ticket_updated"
                /\ outbox[c][j].via = "snapshot"
                /\ outbox[c][j].ticket_id = t
                /\ outbox[c][j].status = "completed"

\* the dispatch of d has returned: its listener is past that message
Completed(d) ==
    listeners[d.l].msg = None \/ listeners[d.l].msg.n # d.n

\* C10: a send that raises during the dispatch of a bridge event does not
\* end the listener (it runs on until a disconnect cancels it), and every
\* dispatch that returns, the one with the failed send and the later ones,
\* has attempted a send to each connection that was subscribed to its
\* ticket.
C10_DeliveryFailureIsIsolated ==
    /\ \A a \in attempts :
          ~a.ok => \/ listeners[a.l].pc \in {"listening", "broadcast", "cancelled"}
                   \/ listeners[a.l].exit = "cancelled"
    /\ \A d \in dispatched :
          (/\ \E a \in attempts : a.l = d.l /\ a.n <= d.n /\ ~a.ok
           /\ Completed(d))
          => \A c \in d.targets :
                \E a \in attempts : a.l = d.l /\ a.n = d.n /\ a.c = c

\* a send to one subscriber raised, the subscriber after it in the same
\* dispatch was sent the event, and a later event was delivered too
C10_Witness ==
    \E a1, a2, a3 \in attempts :
        /\ ~a1.ok
        /\ a2.l = a1.l /\ a2.n = a1.n /\ a2.at > a1.at /\ a2.ok
        /\ a3.l = a1.l /\ a3.n > a1.n /\ a3.ok
        /\ \E i \in 1..Len(outbox[a2.c]) :
              /\ outbox[a2.c][i].type = "ticket_updated"
              /\ outbox[a2.c][i].via = "event"
              /\ outbox[a2.c][i].n = a1.n

\* an event frame in a connection's outbox
IsEventFrame(f) == f.type = "ticket_updated" /\ f.via = "event"

\* C11: a bridge event for ticket S goes to exactly the connections that
\* are in S's subscriber set when it is dispatched: every send of the
\* dispatch is to one of them, every event frame a connection holds was
\* dispatched to it for that ticket, and a dispatch that has returned has
\* attempted every one of them.
C11_DeliveredToExactlySubscribers ==
    /\ \A a \in attempts :
          \E d \in dispatched : d.l = a.l /\ d.n = a.n /\ a.c \in d.targets
    /\ \A c \in Conns : \A i \in 1..Len(outbox[c]) :
          IsEventFrame(outbox[c][i]) =>
              \E d \in dispatched :
                  /\ d.n = outbox[c][i].n
                  /\ d.t = outbox[c][i].ticket_id
                  /\ c \in d.targets
    /\ \A d \in dispatched :
          Completed(d) =>
              \A c \in d.targets :
                  \E a \in attempts : a.l = d.l /\ a.n = d.n /\ a.c = c

\* an event for one ticket was dispatched and sent to its subscriber while
\* another open connection, subscribed to a different ticket only, was
\* registered and got no event frame
C11_Witness ==
    \E d \in dispatched : \E c1, c2 \in Conns :
        /\ Completed(d)
        /\ d.targets = {c1}
        /\ \E a \in attempts : a.l = d.l /\ a.n = d.n /\ a.c = c1 /\ a.ok
        /\ c2 # c1 /\ c2 \in all_connections /\ sock[c2] = "open"
        /\ \E u \in DOMAIN active_connections :
              u # d.t /\ c2 \in active_connections[u]
        /\ d.t \in DOMAIN active_connections
        /\ c2 \notin active_connections[d.t]
        /\ \A i \in 1..Len(outbox[c2]) : ~IsEventFrame(outbox[c2][i])

\* the listener task l is running: created and neither cancelled nor ended
Alive(l) == listeners[l].pc \in {"starting", "listening", "broadcast"}

\* a disconnect is suspended in `await self.redis_task`
CallInProgress == \E c \in Conns : conn[c].pc = "disc_await"

\* C12: whenever no connect or disconnect call is in progress, the bridge
\* listener is running if at least one connection is registered, and is
\* stopped (no task referenced, none running) if none is registered.
C12_ListenerFollowsConnections ==
    ~CallInProgress =>
        IF all_connections # {}
        THEN redis_task # NULL /\ \A l \in redis_task : Alive(l)
        ELSE redis_task = NULL /\ \A l \in ListenerIds : ~Alive(l)

\* C13: at most one bridge listener task is alive, and a live listener is
\* the one the manager references.
C13_SingleReferencedListener ==
    /\ Cardinality({l \in ListenerIds : Alive(l)}) <= 1
    /\ \A l \in ListenerIds : Alive(l) => l \in redis_task

\* the task in slot k is at a publication of ticket t: the commit is done
\* and publish_ticket_update is its next call
AboutToPublish(k, t) ==
    tasks[k].tid = t /\ tasks[k].pc \in {"publish", "handler_publish"}

\* C14: every change of a ticket's status is paired with a publication for
\* that ticket: the step that commits the new status leaves some task at
\* the publish call that follows the commit.
C14_TransitionsArePublished ==
    [][\A t \in TicketIds :
          (tickets[t] # NoRow /\ tickets'[t].status # tickets[t].status) =>
              \E k \in Tasks : AboutToPublish(k, t)']_vars

\* the publish of task k fails in this step: the store is reachable, the
\* task leaves its publish call and no event has been added
PublishFails(k) ==
    /\ tasks[k].pc \in {"publish", "handler_publish"}
    /\ ~dbDown
    /\ tasks'[k].pc # tasks[k].pc
    /\ published' = published

\* C15: a failed publish changes no ticket; after the success commit the
\* task ends normally (it neither raises nor is queued for a retry), and in
\* the failure handler the task goes on exactly as after a successful
\* publish.
C15_PublishFailureIsHarmless ==
    [][\A k \in Tasks :
          PublishFails(k) =>
              /\ tickets' = tickets
              /\ tasks[k].pc = "publish" =>
                    /\ tasks'[k].pc = "done"
                    /\ tasks'[k].retries = tasks[k].retries
              /\ tasks[k].pc = "handler_publish" =>
                    tasks'[k] = Raised(tasks[k])]_vars

\* a task has ended normally on a ticket it committed as completed, and no
\* event was ever published for that ticket: its publish failed
C15_Witness ==
    \E k \in Tasks :
        /\ tasks[k].pc = "done"
        /\ tasks[k].ai # None
        /\ tasks[k].rowcount = Some(1)
        /\ tickets[tasks[k].tid].status = "completed"
        /\ \A s \in TicketStatus : published[tasks[k].tid][s] = 0

\* the handler of connection c has carried out the registry part of
\* disconnect (lines 43-51), or has returned from disconnect
Disconnected(c) == conn[c].pc \in {"disc_await", "closed"}

\* C18: the step in which disconnect(c) runs leaves c in no subscriber set
\* and unregistered, and deletes every entry of which c was the only
\* member; c stays out for as long as its handler has ended.
C18_DisconnectReleasesEntries ==
    [][\A c \in Conns :
          Disconnected(c)' =>
              /\ c \notin all_connections'
              /\ \A t \in DOMAIN active_connections' :
                    c \notin active_connections'[t]
              /\ ~Disconnected(c) =>
                    \A t \in DOMAIN active_connections :
                        active_connections[t] = {c} =>
                            t \notin DOMAIN active_connections']_vars

\* connection c was told it is subscribed to a ticket, its handler has run
\* the registry part of disconnect, and the ticket's entry is gone
C18_Witness ==
    \E c \in Conns :
        /\ conn[c].pc = "disc_await"
        /\ c \notin all_connections
        /\ \E i \in 1..Len(outbox[c]) :
              /\ outbox[c][i].type = "subscribed"
              /\ \E t \in Range(outbox[c][i].ticket_ids) :
                    t \notin DOMAIN active_connections

\* a JSON value that is an integer, or a string that spells one
ValidInteger(x) ==
    IsNum(x) \/ (IsStr(x) /\ \E i \in 1..Len(DigitStrings) : DigitStrings[i] = x.str)

\* a subscribe request whose ticket_ids is not a list of valid integers
MalformedSubscribe(f) ==
    /\ f \notin {BadJson, NotObject}
    /\ f.action = "subscribe"
    /\ \/ ~IsList(f.ticket_ids)
       \/ \E i \in 1..Len(f.ticket_ids.list) : ~ValidInteger(f.ticket_ids.list[i])

\* in this step the handler of the open connection c takes frame f
Takes(c, f) ==
    /\ sock[c] = "open"
    /\ received'[c] # received[c]
    /\ received'[c].frame = f

\* in this step connection c is sent exactly one frame, of type error
AnsweredWithError(c) ==
    /\ Len(outbox'[c]) = Len(outbox[c]) + 1
    /\ SubSeq(outbox'[c], 1, Len(outbox[c])) = outbox[c]
    /\ outbox'[c][Len(outbox'[c])].type = "error"

\* C19: a subscribe request with malformed ticket_ids is answered with one
\* error frame and nothing else (no acknowledgement, no snapshot), and the
\* registry is left as it was.
C19_MalformedSubscribeRejected ==
    [][\A c \in Conns : \A f \in ClientFrames :
          (Takes(c, f) /\ MalformedSubscribe(f)) =>
              /\ AnsweredWithError(c)
              /\ active_connections' = active_connections
              /\ all_connections' = all_connections]_vars

\* the requests the protocol calls malformed
MalformedRequest(f) ==
    f \in {BadJson, NotObject, UnknownAction} \/ MalformedSubscribe(f)

\* C20: a malformed request is answered with an error frame and the
\* connection stays open and registered, its handler back at the receive
\* loop and its subscriptions as they were.
C20_MalformedRequestKeepsConnection ==
    [][\A c \in Conns : \A f \in ClientFrames :
          (Takes(c, f) /\ MalformedRequest(f)) =>
              /\ AnsweredWithError(c)
              /\ conn'[c].pc = "receive"
              /\ sock'[c] = "open"
              /\ c \in all_connections'
              /\ \A t \in DOMAIN active_connections :
                    /\ t \in DOMAIN active_connections'
                    /\ (c \in active_connections[t]) =
                          (c \in active_connections'[t])]_vars

\* in this step the listener l takes the message at the head of its
\* inbox, and that message is malformed
TakesMalformed(l) ==
    /\ listeners[l].pc = "listening"
    /\ listeners[l].inbox # <<>>
    /\ Malformed(Head(listeners[l].inbox))
    /\ listeners'[l].pc # "cancelled"
    /\ listeners'[l].inbox # listeners[l].inbox
    /\ Len(listeners'[l].inbox) < Len(listeners[l].inbox)

\* C16: a malformed message on the channel is skipped: the listener that
\* takes it stays in its loop with the messages behind it still to come.
C16_MalformedMessageSkipped ==
    [][\A l \in ListenerIds :
          TakesMalformed(l) =>
              /\ listeners'[l].pc = "listening"
              /\ listeners'[l].inbox = Tail(listeners[l].inbox)]_vars

\* C17: the event frames a connection is sent for one ticket are in the
\* order in which the events came from the channel (n is the position of
\* the event on the channel): no event is sent after a later one.
C17_EventsInOrder ==
    \A c \in Conns : \A i, j \in 1..Len(outbox[c]) :
        (/\ i < j
         /\ IsEventFrame(outbox[c][i])
         /\ IsEventFrame(outbox[c][j])
         /\ outbox[c][i].ticket_id = outbox[c][j].ticket_id)
        => outbox[c][i].n <= outbox[c][j].n

\* C21: a claim whose update affects no row ends the task normally: the
\* task is done with its retries untouched (nothing was raised), the
\* classifier is not called, no ticket is written and no event published.
C21_ZeroRowsReturns ==
    [][\A k \in Tasks :
          (tasks[k].pc = "queued" /\ tasks'[k].rowcount = Some(0))
          => /\ tasks'[k].pc = "done"
             /\ tasks'[k].retries = tasks[k].retries
             /\ tasks'[k].exc = NULL
             /\ tickets' = tickets
             /\ triageCalls' = triageCalls
             /\ published' = published]_vars

\* a task found its ticket claimed by another worker that is still at
\* work, and has ended on its first run without a classifier call
C21_Witness ==
    \E k, j \in Tasks :
        /\ k # j
        /\ tasks[k].tid = tasks[j].tid
        /\ tasks[k].pc = "done"
        /\ tasks[k].rowcount = Some(0)
        /\ tasks[k].runs = 1
        /\ tasks[k].ai = None
        /\ tasks[j].pc = "triage"
        /\ triageCalls[tasks[k].tid] = 0

\* C22: a ticket holds an error message only while its status is failed,
\* whatever sequence of success commits, failure handling and manual
\* resolutions led to the state.
C22_ErrorMessageOnlyWhenFailed ==
    \A t \in TicketIds :
        (tickets[t] # NoRow /\ tickets[t].error_message # NULL)
        => tickets[t].status = "failed"

\* C23: the step that stores a new ticket stores it with status pending
\* and no triage field, and puts exactly one unit of work for its id on
\* the queue.
C23_CreateEnqueuesOne ==
    [][\A t \in TicketIds :
          (tickets[t] = NoRow /\ tickets'[t] # NoRow)
          => /\ tickets'[t] = NewTicket
             /\ Cardinality({k \in Tasks : tasks'[k] # tasks[k]}) = 1
             /\ \A k \in Tasks :
                    tasks'[k] # tasks[k] => /\ tasks[k].pc = "idle"
                                            /\ tasks'[k] = QueuedTask(t)]_vars

\* C24: whatever the provider does (a valid answer, an exception, text
\* that does not parse, parsed JSON that is not an object, an object the
\* schema rejects), triage_complaint returns a result record within every
\* field constraint: it neither raises nor returns nothing.
C24_AlwaysReturnsResult ==
    t_out # None
        => /\ DOMAIN t_out = DOMAIN get_fallback_response
           /\ ResultValid(t_out)

\* the call has returned for parsed JSON that is a non-empty list
C24_Witness ==
    /\ t_out # None
    /\ t_in.kind = "text"
    /\ safe_parse_json(t_in) = JsonList(2)
    /\ t_out = get_fallback_response

\* C25: a classifier call returns even when the provider never responds,
\* so a task does not stay in the call forever.
C25_ClassifierCallReturns ==
    \A k \in Tasks : (tasks[k].pc = "triage") ~> (tasks[k].pc # "triage")

\* C26: when the referenced listener has ended on a broker or transport
\* error and connections remain, the connect that accepts the next
\* connection starts a new listener.
C26_ErrorEndedListenerRestarted ==
    [][\A c \in Conns :
          (/\ c \notin all_connections
           /\ c \in all_connections'
           /\ all_connections # {}
           /\ \E l \in redis_task : /\ listeners[l].pc = "done"
                                     /\ listeners[l].exit = "broker_error")
          => \E l \in redis_task' : Alive(l)']_vars

\* C27: the step of a PATCH that edits a ticket changes its
\* agent_edited_response and nothing else: status, category, urgency,
\* sentiment_score, ai_draft_response and error_message keep their values,
\* and no task (a worker that has claimed the ticket included) is touched.
C27_PatchChangesOnlyAgentEdit ==
    [][\A t \in TicketIds :
          (/\ tickets[t] # NoRow
           /\ tickets'[t].agent_edited_response
                  # tickets[t].agent_edited_response)
          => /\ tickets' = [tickets EXCEPT ![t].agent_edited_response =
                                              tickets'[t].agent_edited_response]
             /\ tasks' = tasks
             /\ claims' = claims]_vars

\* a ticket was edited, and the worker that claimed it is in its
\* classifier call with the ticket still in processing
C27_Witness ==
    \E t \in TicketIds, k \in Tasks :
        /\ tickets[t] # NoRow
        /\ tickets[t].agent_edited_response = Some("edited")
        /\ tickets[t].status = "processing"
        /\ tasks[k].tid = t
        /\ tasks[k].pc = "triage"
        /\ tasks[k].rowcount = Some(1)
        /\ tasks[k].orm.agent_edited_response = NULL

\* C28: the success commit of a worker leaves the stored ticket with the
\* whole result (category, sentiment_score, urgency, ai_draft_response
\* and ai_status), status completed and no error message, all in the one
\* step, so that no state holds a partly written completed ticket.
C28_SuccessCommitIsWhole ==
    [][\A k \in Tasks :
          (tasks[k].pc = "commit" /\ tasks'[k].pc = "publish")
          => LET row == tickets'[tasks[k].tid]
                 ai == tasks[k].ai
             IN /\ row.status = "completed"
                /\ row.category = Some(ai.category)
                /\ row.sentiment_score = Some(ai.sentiment_score)
                /\ row.urgency = Some(ai.urgency)
                /\ row.ai_draft_response = Some(ai.draft_response)
                /\ row.error_message = NULL
                /\ "ai_status" \in DOMAIN row
                /\ row.ai_status = Some(ai.ai_status)]_vars

\* C29: when a task that claimed its ticket has raised, the step of its
\* failure handler stores status failed with the exception text cut to
\* 500 characters and takes the task to the publication of the failure,
\* after which the exception is raised again.
C29_ExceptionAfterClaimMarksFailed ==
    [][\A k \in Tasks :
          (/\ tasks[k].pc = "handler"
           /\ tasks[k].rowcount = Some(1)
           /\ tasks'[k] # tasks[k])
          => /\ tickets'[tasks[k].tid].status = "failed"
             /\ \E n \in ErrTextLens :
                   tickets'[tasks[k].tid].error_message = Some(Truncate(n))
             /\ tasks'[k].pc = "handler_publish"]_vars

\* C30: under weak fairness of the workers and the task runner, every
\* ticket that was created and had a unit of work enqueued for it
\* eventually reaches completed or failed, in every run in which each
\* classifier call returns (the call that never returns is C25's case).
C30_EnqueuedTicketEndsTerminal ==
    \/ <>(\E k \in Tasks : tasks[k].prov = ProviderHangs)
    \/ \A t \in TicketIds :
          (/\ tickets[t] # NoRow
           /\ \E k \in Tasks : tasks[k].pc # "idle" /\ tasks[k].tid = t)
          ~> (tickets[t] # NoRow /\ tickets[t].status \in Terminal)

\* C31: a connection that stays connected and whose subscribe for ticket
\* T is handled when T is already terminal in the store is eventually
\* sent a ticket_updated frame that shows T's terminal status.
C31_SubscriberLearnsTerminalStatus ==
    \A c \in Conns : \A t \in TicketIds :
        (conn[c].pc = "fetch" /\ t \in conn[c].due)
        ~> (\E i \in 1..Len(outbox[c]) :
               /\ outbox[c][i].type = "ticket_updated"
               /\ outbox[c][i].ticket_id = t
               /\ outbox[c][i].status \in Terminal)

C33_NoEventAfterUnsubscribe ==
    [][\A a \in attempts' \ attempts :
          (a.ok /\ a.at > 1)
          => a.c \in Subscribers(active_connections, listeners[a.l].msg.ticket_id)]_vars

\* C34: an UpdateEvent with status X for ticket T is published only when
\* the committed row of T holds X, and afterwards the store never shows
\* an earlier lifecycle state than a published event: after a completed
\* or failed event the row is completed or failed.
C34_PublishedAfterCommit ==
    [][\A t \in TicketIds : \A s \in TicketStatus :
          /\ published'[t][s] > published[t][s]
                => /\ tickets[t] # NoRow
                   /\ tickets[t].status = s
                   /\ tickets'[t].status = s
          /\ (published'[t][s] > 0 /\ s \in Terminal)
                => tickets'[t].status \in Terminal]_vars

\* the worker that claimed a ticket has committed completed, published
\* the event and ended
C34_Witness ==
    \E k \in Tasks :
        /\ tasks[k].pc = "done"
        /\ tasks[k].rowcount = Some(1)
        /\ tasks[k].ai # None
        /\ published[tasks[k].tid]["completed"] = 1
        /\ published[tasks[k].tid]["failed"] = 0
        /\ tickets[tasks[k].tid].status = "completed"

\* C35: for each ticket at most one completed-or-failed UpdateEvent is
\* published, across all workers, retries and duplicate tasks, and once
\* no worker is at work on the ticket the published status is the
\* stored one (as long as no agent has resolved the ticket).
C35_OneTerminalEvent ==
    \A t \in TicketIds :
        /\ published[t]["completed"] + published[t]["failed"] <= 1
        /\ \A s \in Terminal :
              ( /\ published[t][s] > 0
                /\ tickets[t] # NoRow
                /\ tickets[t].status \in Terminal
                /\ tickets[t].resolved_at = NULL
                /\ \A k \in Tasks : tasks[k].pc \in {"idle", "done"} )
              => tickets[t].status = s

\* C36: a ticket whose status is pending, processing or failed has
\* category, urgency, sentiment_score and ai_draft_response all null.
C36_ResultFieldsOnlyOnCompleted ==
    \A t \in TicketIds :
        (tickets[t] # NoRow /\ tickets[t].status \in {"pending", "processing", "failed"})
        => /\ tickets[t].category = NULL
           /\ tickets[t].urgency = NULL
           /\ tickets[t].sentiment_score = NULL
           /\ tickets[t].ai_draft_response = NULL

\* C37: every connection in some ticket's subscriber set is in
\* all_connections: no subscription outlives its connection.
C37_SubscribersAreRegistered ==
    \A t \in DOMAIN active_connections :
        active_connections[t] \subseteq all_connections

\* a connection that was subscribed has been disconnected and is out of
\* both sets, while another one is still subscribed to the same ticket
C37_Witness ==
    \E c \in Conns : \E t \in DOMAIN active_connections :
        /\ sock[c] = "none"
        /\ conn[c] = ClosedConn
        /\ c \notin all_connections
        /\ active_connections[t] # {}
        /\ c \notin active_connections[t]

\* C38: the registry holds no ticket id whose subscriber set is empty.
C38_NoEmptyEntry ==
    \A t \in DOMAIN active_connections : active_connections[t] # {}

====
